---- MODULE Spec2Model ----
(***************************************************************************)
(* LlamaFfnLayer<T> (src/turbomind/models/llama/LlamaFfnLayer.cc): the     *)
(* scratch buffers of one layer instance, allocateBuffer, freeBuffer,      *)
(* activation and forward.  forward is modelled statement by statement;    *)
(* every device operation, synchronisation point and allocator call a      *)
(* forward call issues is appended to that call's log `ops`, with the      *)
(* arguments the code passes.                                              *)
(***************************************************************************)
EXTENDS Integers, Sequences, FiniteSets, TLC

\* ---------------------------------------------------------------- bounds
MaxTokens == 2
InterSize == 2
HiddenUnits == 1
MaxRank == 1
NumAddr == 4
NumCallers == 2

Callers == 1..NumCallers
\* the callers of the sequential specification: a layer instance processes
\* one batch at a time
SeqCallers == {1}

Addrs == 1..NumAddr

\* ------------------------------------------------------------- pointers
\* A pointer is a base address and an element offset.  Base 0 is nullptr,
\* 1..NumAddr are regions of the allocator, negative bases are the
\* caller-owned tensors.
NullBase == 0
FfnInputBase == -1
FfnOutputBase == -2
LoraMaskBase == -3

Ptr(b, o) == [base |-> b, off |-> o]
NullPtr == Ptr(NullBase, 0)
PtrAdd(p, k) == Ptr(p.base, p.off + k)

VARIABLES
    gating_buf_,                    \* T* gating_buf_
    inter_buf_,                     \* T* inter_buf_
    lora_buf_,                      \* T* lora_buf_
    is_allocate_buffer_,            \* bool
    is_free_buffer_after_forward_,  \* bool, fixed at construction
    pointer_mapping,                \* allocator_: address -> elements held (0: not allocated)
    pc,                             \* per caller: position in forward
    input_tensors,                  \* per caller: const TensorMap* input_tensors
    output_tensors,                 \* per caller: TensorMap* output_tensors
    weights,                        \* per caller: const LlamaFfnWeight<T>* weights
    local,                          \* per caller: the locals of forward
    ops                             \* per caller: operations issued by the current call

layerVars == <<gating_buf_, inter_buf_, lora_buf_, is_allocate_buffer_, pointer_mapping>>
argVars == <<input_tensors, output_tensors, weights>>
vars == <<gating_buf_, inter_buf_, lora_buf_, is_allocate_buffer_,
          is_free_buffer_after_forward_, pointer_mapping,
          pc, input_tensors, output_tensors, weights, local, ops>>

\* ---------------------------------------------------------------- inputs
InputKeys == {"ffn_input", "layer_id", "lora_mask"}
OutputKeys == {"ffn_output"}

\* input_tensors: the names the map holds and shape[0] of "ffn_input"
InputTensorMaps == [keys : SUBSET InputKeys, token_num : 1..MaxTokens]
\* output_tensors: the names the map holds
OutputTensorMaps == [keys : SUBSET OutputKeys]

\* LlamaFfnWeight<T>: fused_gating_intermediate.kernel, is_fused_silu,
\* inter_size, gating.lora.r, intermediate.lora.r and the dimensions of the
\* three projections (gating, intermediate: hidden -> inter; output: inter -> hidden)
WeightOf(fk, fs, is, gr, ir, hs) ==
    [fused_kernel |-> fk, is_fused_silu |-> fs, inter_size |-> is,
     gating_lora_r |-> gr, inter_lora_r |-> ir,
     gating_output_dims |-> is, inter_output_dims |-> is,
     output_input_dims |-> is, output_output_dims |-> hs]

\* the weights a call may be given: one model, so one inter_size and one
\* hidden size; fusion and adapter ranks vary from call to call
Weights == {WeightOf(fk, fs, InterSize, gr, ir, HiddenUnits) :
              fk \in BOOLEAN, fs \in BOOLEAN,
              gr \in 0..MaxRank, ir \in 0..MaxRank}

NoInputs == [keys |-> {}, token_num |-> 1]
NoOutputs == [keys |-> {}]
NoWeights == WeightOf(FALSE, FALSE, InterSize, 0, 0, HiddenUnits)
\* the member pointers a thread has loaded for the call it is about to make
NoRegs == [gating |-> NullPtr, inter |-> NullPtr, lora |-> NullPtr]

NoLocal == [token_num |-> 0, inter_size |-> 0, is_fused_silu |-> FALSE,
            ffn_input_data |-> NullPtr, ffn_output_data |-> NullPtr,
            lora_mask |-> NullPtr,
            \* a member pointer loaded for, or a pointer returned by, reMalloc
            tmp |-> NullPtr,
            \* the arguments of the next kernel call evaluated so far
            loaded |-> {}, regs |-> NoRegs,
            \* history: the call has been in flight on the instance at the
            \* same time as another call
            overlapped |-> FALSE]

\* ------------------------------------------------------------- allocator
\* allocator_->malloc: a region of `size` elements at the lowest free address
FreeAddrs(pm) == {a \in Addrs : pm[a] = 0}
MallocAddr(pm) == CHOOSE a \in FreeAddrs(pm) : \A b \in FreeAddrs(pm) : a <= b

isExist(pm, p) == p.base \in Addrs /\ pm[p.base] > 0

Malloc(pm, size) ==
    LET a == MallocAddr(pm) IN
    [pm |-> [pm EXCEPT ![a] = size], ptr |-> Ptr(a, 0),
     log |-> <<[op |-> "malloc", ptr |-> Ptr(a, 0), size |-> size]>>]

\* allocator_->reMalloc(ptr, size): the region is reused when it already
\* holds `size` elements and is grown (released and acquired afresh) otherwise
ReMalloc(pm, p, size) ==
    LET req == <<[op |-> "reMalloc", ptr |-> p, size |-> size]>> IN
    IF isExist(pm, p)
    THEN IF pm[p.base] >= size
         THEN [pm |-> pm, ptr |-> p, log |-> req]
         ELSE LET m == Malloc([pm EXCEPT ![p.base] = 0], size) IN
              [pm |-> m.pm, ptr |-> m.ptr,
               log |-> req \o <<[op |-> "free", ptr |-> p, size |-> pm[p.base]]>> \o m.log]
    ELSE LET m == Malloc(pm, size) IN
         [pm |-> m.pm, ptr |-> m.ptr, log |-> req \o m.log]

\* allocator_->free(&ptr): releases the region and sets the handle to nullptr
Free(pm, p) ==
    IF isExist(pm, p)
    THEN [pm |-> [pm EXCEPT ![p.base] = 0], ptr |-> NullPtr,
          log |-> <<[op |-> "free", ptr |-> p, size |-> pm[p.base]]>>]
    ELSE [pm |-> pm, ptr |-> NullPtr, log |-> <<>>]

\* the allocator calls made for the member `buf`, as they appear in the log
Tag(buf, log) ==
    [i \in 1..Len(log) |-> [op |-> log[i].op, ptr |-> log[i].ptr, size |-> log[i].size,
                            buf |-> buf]]

\* elements addressable from pointer p to the end of its region
Capacity(pm, p) == IF isExist(pm, p) /\ p.off <= pm[p.base] THEN pm[p.base] - p.off ELSE 0

\* ------------------------------------------------------- allocateBuffer
\* allocateBuffer sizing the gating region without the buffer factor
GatingSize_nofactor(token_num, inter_size, inter_buf_factor) ==
    token_num * inter_size

\* line 34: elements requested for the gating region
GatingSize(token_num, inter_size, inter_buf_factor) ==
    (token_num * inter_size) * inter_buf_factor

\* line 38: elements requested for the adapter workspace
LoraSize(token_num, gating_lora_r, inter_lora_r) ==
    token_num * (gating_lora_r + inter_lora_r)

\* allocateBuffer acquiring the adapter workspace whatever the ranks
NeedsLora_always(gating_lora_r, inter_lora_r) == TRUE

\* line 37
NeedsLora(gating_lora_r, inter_lora_r) == gating_lora_r + inter_lora_r # 0

\* lines 28-42, as a function of the layer's state
allocateBuffer(token_num, inter_size, inter_buf_factor, gating_lora_r, inter_lora_r) ==
    LET sz == token_num * inter_size
        g == ReMalloc(pointer_mapping, gating_buf_,
                      GatingSize(token_num, inter_size, inter_buf_factor))
        l == IF NeedsLora(gating_lora_r, inter_lora_r)
             THEN ReMalloc(g.pm, lora_buf_, LoraSize(token_num, gating_lora_r, inter_lora_r))
             ELSE [pm |-> g.pm, ptr |-> lora_buf_, log |-> <<>>]
    IN [gating_buf_ |-> g.ptr,
        inter_buf_ |-> PtrAdd(g.ptr, sz),
        lora_buf_ |-> l.ptr,
        is_allocate_buffer_ |-> TRUE,
        pointer_mapping |-> l.pm,
        log |-> Tag("gating_buf_", g.log) \o Tag("lora_buf_", l.log)]

\* ------------------------------------------------------------ freeBuffer
\* lines 44-52
freeBuffer ==
    IF is_allocate_buffer_
    THEN LET g == Free(pointer_mapping, gating_buf_)
             l == Free(g.pm, lora_buf_)
         IN [gating_buf_ |-> g.ptr, inter_buf_ |-> inter_buf_, lora_buf_ |-> l.ptr,
             is_allocate_buffer_ |-> FALSE, pointer_mapping |-> l.pm,
             log |-> Tag("gating_buf_", g.log) \o Tag("lora_buf_", l.log)]
    ELSE [gating_buf_ |-> gating_buf_, inter_buf_ |-> inter_buf_, lora_buf_ |-> lora_buf_,
          is_allocate_buffer_ |-> is_allocate_buffer_, pointer_mapping |-> pointer_mapping,
          log |-> <<>>]

\* ------------------------------------------------- operations of the log
\* linear_->forward(output, {input, pitch}, batch, weight, type, lora_buff, lora_mask)
OpLinear(dst, src, pitch, n, weight, type, lora_buff, mask) ==
    [op |-> "linear", dst |-> dst, src |-> src, pitch |-> pitch, n |-> n,
     weight |-> weight, type |-> type, lora_buff |-> lora_buff, lora_mask |-> mask]

\* invokeGenericActivation_v2<SiluActivation>(inout, inter, stride, token_num, dims, stream_)
OpActivation(inout, inter, stride, n, dims) ==
    [op |-> "activation", inout |-> inout, inter |-> inter, stride |-> stride,
     n |-> n, dims |-> dims]

\* count_and_fix(data, size, tag, level)
OpCountAndFix(data, size, tag, level) ==
    [op |-> "count_and_fix", data |-> data, size |-> size, tag |-> tag, level |-> level]

\* sync_check_cuda_error()
OpSync == [op |-> "sync"]

\* ---------------------------------------------- footprints of the kernels
\* elements are <<base, offset>> pairs
Range(p, k) == {<<p.base, p.off + j>> : j \in 0..(k - 1)}
Strided(p, stride, n, dims) ==
    {<<p.base, p.off + t * stride + i>> : t \in 0..(n - 1), i \in 0..(dims - 1)}

\* the projection engine: the columns a projection writes per token, by
\* weight and mode; the fused kernel writes gate and up side by side, or the
\* gated product alone when the activation is fused in
LinearOutDims(e, w) ==
    IF e.weight = "gating" THEN w.gating_output_dims
    ELSE IF e.weight = "intermediate" THEN w.inter_output_dims
    ELSE IF e.weight = "output" THEN w.output_output_dims
    ELSE IF e.type = "kFusedSiluFfn" THEN w.inter_size
    ELSE 2 * w.inter_size

\* the columns a projection reads per token
LinearInDims(e, w) ==
    IF e.weight = "output" THEN w.output_input_dims ELSE w.output_output_dims

\* the projection engine reads `batch` rows `pitch` apart, a pitch of zero
\* meaning rows packed one after the other
LinearInPitch(e, w) == IF e.pitch = 0 THEN LinearInDims(e, w) ELSE e.pitch

\* the elements an operation of the log writes
Writes(e, w) ==
    IF e.op = "linear" THEN Range(e.dst, e.n * LinearOutDims(e, w))
    ELSE IF e.op = "activation" THEN Strided(e.inout, e.stride, e.n, e.dims)
    ELSE IF e.op = "count_and_fix" THEN Range(e.data, e.size)
    ELSE {}

\* the elements an operation of the log reads
Reads(e, w) ==
    IF e.op = "linear" THEN Strided(e.src, LinearInPitch(e, w), e.n, LinearInDims(e, w))
    ELSE IF e.op = "activation"
         THEN Strided(e.inout, e.stride, e.n, e.dims)
                  \cup Strided(e.inter, e.stride, e.n, e.dims)
    ELSE IF e.op = "count_and_fix" THEN Range(e.data, e.size)
    ELSE {}

\* sync_check_cuda_error(): throws iff the device reports an error
sync_check_cuda_error(device_error) == device_error

\* variant: the chunked branch issues no checkpoint
activation_nosync(token_num, inter_size, is_chunked) ==
    IF is_chunked
    THEN <<OpActivation(gating_buf_, PtrAdd(gating_buf_, inter_size), inter_size * 2,
                        token_num, inter_size)>>
    ELSE <<OpActivation(gating_buf_, inter_buf_, inter_size, token_num, inter_size),
           OpSync>>

\* ------------------------------------------------------------ activation
\* lines 54-69: the kernel launch and the synchronisation that follows it
activation(token_num, inter_size, is_chunked) ==
    IF is_chunked
    THEN <<OpActivation(gating_buf_, PtrAdd(gating_buf_, inter_size), inter_size * 2,
                        token_num, inter_size),
           OpSync>>
    ELSE <<OpActivation(gating_buf_, inter_buf_, inter_size, token_num, inter_size),
           OpSync>>

\* --------------------------------------------------------------- forward
\* forward looking up layer_id only where the tag is built, after the projections
RequiredInputs_nolayerid == {"ffn_input"}

\* forward looking up ffn_input only where the projections need it
RequiredInputs_noinput == {"layer_id"}

\* lines 86-87: the names looked up with at()/getVal() before allocateBuffer
RequiredInputs == {"ffn_input", "layer_id"}

\* TensorMap::at(name) / getVal(name): throws when the map holds no such name
at_throws(tm, name) == name \notin tm.keys

\* line 90
IsFusedSilu(w) == w.fused_kernel /\ w.is_fused_silu

\* forward never asking for room for the up-projection
InterBufFactor_always1(is_fused_silu) == 1

\* forward always asking for room for both gate and up
InterBufFactor_always2(is_fused_silu) == 2

\* line 92: the inter_buf_factor argument
InterBufFactor(is_fused_silu) == IF is_fused_silu THEN 1 ELSE 2

\* forward asking for the fused-activation kernel whenever the weights are fused
LinearType_silu(w) == "kFusedSiluFfn"

\* line 101
LinearType(w) == IF w.is_fused_silu THEN "kFusedSiluFfn" ELSE "kGemm"

\* forward invoking the activation whatever the fusion bakes in
NeedsActivation_always(w) == TRUE

\* line 106
NeedsActivation(w) == ~w.is_fused_silu

\* forward reading the gating region packed in every path
Pitch_zero(w, inter_size) == 0

\* forward deriving the stride from is_fused_silu alone
Pitch_nokernel(w, inter_size) ==
    IF ~w.is_fused_silu THEN inter_size * 2 ELSE 0

\* line 147
Pitch(w, inter_size) ==
    IF w.fused_kernel /\ ~w.is_fused_silu THEN inter_size * 2 ELSE 0

\* line 96: at("lora_mask", Tensor{MEMORY_GPU, TYPE_INVALID, {}, nullptr}).getPtr<int>()
LoraMaskPtr(it) == IF "lora_mask" \in it.keys THEN Ptr(LoraMaskBase, 0) ELSE NullPtr

Goto(c, l) == pc' = [pc EXCEPT ![c] = l]
Issue(c, entries) == ops' = [ops EXCEPT ![c] = @ \o entries]

\* a device operation followed by sync_check_cuda_error(): the call goes on
\* to `next` or the check throws
\* the error state the device is left in by a failing kernel, as the
\* checkpoint reads it
OpDeviceError == [op |-> "device_error"]

Faulted(entries, device_error) ==
    IF device_error THEN entries \o <<OpDeviceError>> ELSE entries

\* variant: the checkpoint does not throw
DeviceStep_unchecked(c, entries, next) ==
    \E device_error \in BOOLEAN :
        /\ Issue(c, Faulted(entries, device_error))
        /\ Goto(c, next)

DeviceStep(c, entries, next) ==
    \E device_error \in BOOLEAN :
        /\ Issue(c, Faulted(entries, device_error))
        /\ Goto(c, IF sync_check_cuda_error(device_error) THEN "threw" ELSE next)

SetLayer(r) ==
    /\ gating_buf_' = r.gating_buf_
    /\ inter_buf_' = r.inter_buf_
    /\ lora_buf_' = r.lora_buf_
    /\ is_allocate_buffer_' = r.is_allocate_buffer_
    /\ pointer_mapping' = r.pointer_mapping

\* lines 72-90: the call is entered with its arguments; token_num, layer_id
\* and inter_size are read, a missing required input throws
\* The layer takes no lock.  Its callers are to see that the instance
\* processes one batch at a time: a call keeps that rule when no other call
\* is in flight as it is entered.
Ended == {"idle", "returned", "threw"}

\* variant: every entry counts as keeping the rule
NoCallInFlight_unchecked(c) == TRUE

NoCallInFlight(c) == \A d \in Callers \ {c} : pc[d] \in Ended

\* the calls' records as call c is entered with record rec: an entry that
\* breaks the rule is noted on c and on the calls in flight
Entered(c, rec) ==
    [d \in Callers |->
        IF d = c THEN [rec EXCEPT !.overlapped = ~NoCallInFlight(c)]
        ELSE [local[d] EXCEPT
                !.overlapped = @ \/ (pc[d] \notin Ended /\ ~NoCallInFlight(c))]]

FwdBeginWith(c, its, ots, ws) ==
    /\ pc[c] = "idle"
    /\ \E it \in its, ot \in ots, w \in ws :
        /\ input_tensors' = [input_tensors EXCEPT ![c] = it]
        /\ output_tensors' = [output_tensors EXCEPT ![c] = ot]
        /\ weights' = [weights EXCEPT ![c] = w]
        /\ IF \A name \in RequiredInputs : ~at_throws(it, name)
           THEN /\ local' = Entered(c,
                        [NoLocal EXCEPT !.token_num = it.token_num,
                                        !.inter_size = w.inter_size,
                                        !.is_fused_silu = IsFusedSilu(w)])
                /\ Goto(c, "L92")
           ELSE /\ local' = Entered(c, NoLocal)
                /\ Goto(c, "threw")
    /\ ops' = [ops EXCEPT ![c] = <<>>]
    /\ UNCHANGED <<layerVars, is_free_buffer_after_forward_>>

FwdBegin(c) == FwdBeginWith(c, InputTensorMaps, OutputTensorMaps, Weights)

\* line 92
FwdAllocate(c) ==
    /\ pc[c] = "L92"
    /\ LET r == allocateBuffer(local[c].token_num, local[c].inter_size,
                               InterBufFactor(local[c].is_fused_silu),
                               weights[c].gating_lora_r, weights[c].inter_lora_r)
       IN /\ SetLayer(r)
          /\ Issue(c, <<[op |-> "allocateBuffer",
                         token_num |-> local[c].token_num,
                         inter_size |-> local[c].inter_size,
                         inter_buf_factor |-> InterBufFactor(local[c].is_fused_silu),
                         gating_lora_r |-> weights[c].gating_lora_r,
                         inter_lora_r |-> weights[c].inter_lora_r]>> \o r.log)
    /\ Goto(c, "L94")
    /\ UNCHANGED <<argVars, local, is_free_buffer_after_forward_>>

\* lines 94-96: a missing "ffn_output" throws
FwdGetPtrs(c) ==
    /\ pc[c] = "L94"
    /\ IF ~at_throws(output_tensors[c], "ffn_output")
       THEN /\ local' = [local EXCEPT ![c].ffn_input_data = Ptr(FfnInputBase, 0),
                                      ![c].ffn_output_data = Ptr(FfnOutputBase, 0),
                                      ![c].lora_mask = LoraMaskPtr(input_tensors[c])]
            /\ Goto(c, "L98")
       ELSE /\ UNCHANGED local
            /\ Goto(c, "threw")
    /\ UNCHANGED <<layerVars, argVars, ops, is_free_buffer_after_forward_>>

\* lines 98-104
FwdFusedLinear(c) ==
    /\ pc[c] = "L98"
    /\ weights[c].fused_kernel
    /\ DeviceStep(c, <<OpLinear(gating_buf_, local[c].ffn_input_data, 0, local[c].token_num,
                                "fused_gating_intermediate", LinearType(weights[c]),
                                NullPtr, NullPtr),
                       OpSync>>, "L106")
    /\ UNCHANGED <<layerVars, argVars, local, is_free_buffer_after_forward_>>

\* lines 106-108, is_fused_silu unset
FwdFusedActivation(c) ==
    /\ pc[c] = "L106"
    /\ NeedsActivation(weights[c])
    /\ DeviceStep(c, activation(local[c].token_num, local[c].inter_size, TRUE), "L110")
    /\ UNCHANGED <<layerVars, argVars, local, is_free_buffer_after_forward_>>

\* line 106, is_fused_silu set: no activation
FwdFusedNoActivation(c) ==
    /\ pc[c] = "L106"
    /\ ~NeedsActivation(weights[c])
    /\ Goto(c, "L110")
    /\ UNCHANGED <<layerVars, argVars, local, ops, is_free_buffer_after_forward_>>

\* line 110
FwdFusedCount(c) ==
    /\ pc[c] = "L110"
    /\ Issue(c, <<OpCountAndFix(gating_buf_,
                                local[c].token_num * weights[c].output_input_dims,
                                "w1_w3_silu", 3)>>)
    /\ Goto(c, "L145")
    /\ UNCHANGED <<layerVars, argVars, local, is_free_buffer_after_forward_>>

\* lines 112-123
FwdW1(c) ==
    /\ pc[c] = "L98"
    /\ ~weights[c].fused_kernel
    /\ DeviceStep(c, <<OpLinear(gating_buf_, local[c].ffn_input_data, 0, local[c].token_num,
                                "gating", "kGemm", lora_buf_, local[c].lora_mask),
                       OpSync>>, "L124")
    /\ UNCHANGED <<layerVars, argVars, local, is_free_buffer_after_forward_>>

\* line 124
FwdW1Count(c) ==
    /\ pc[c] = "L124"
    /\ Issue(c, <<OpCountAndFix(gating_buf_,
                                local[c].token_num * weights[c].gating_output_dims,
                                "w1", 3)>>)
    /\ Goto(c, "L126")
    /\ UNCHANGED <<layerVars, argVars, local, is_free_buffer_after_forward_>>

\* lines 126-136
FwdW3(c) ==
    /\ pc[c] = "L126"
    /\ DeviceStep(c, <<OpLinear(inter_buf_, local[c].ffn_input_data, 0, local[c].token_num,
                                "intermediate", "kGemm", lora_buf_, local[c].lora_mask),
                       OpSync>>, "L137")
    /\ UNCHANGED <<layerVars, argVars, local, is_free_buffer_after_forward_>>

\* line 137
FwdW3Count(c) ==
    /\ pc[c] = "L137"
    /\ Issue(c, <<OpCountAndFix(inter_buf_,
                                local[c].token_num * weights[c].inter_output_dims,
                                "w3", 3)>>)
    /\ Goto(c, "L140")
    /\ UNCHANGED <<layerVars, argVars, local, is_free_buffer_after_forward_>>

\* line 140
FwdAct(c) ==
    /\ pc[c] = "L140"
    /\ DeviceStep(c, activation(local[c].token_num, local[c].inter_size, FALSE), "L142")
    /\ UNCHANGED <<layerVars, argVars, local, is_free_buffer_after_forward_>>

\* line 142
FwdActCount(c) ==
    /\ pc[c] = "L142"
    /\ Issue(c, <<OpCountAndFix(gating_buf_,
                                local[c].token_num * weights[c].output_input_dims,
                                "act", 3)>>)
    /\ Goto(c, "L145")
    /\ UNCHANGED <<layerVars, argVars, local, is_free_buffer_after_forward_>>

\* lines 145-156
FwdW2(c) ==
    /\ pc[c] = "L145"
    /\ DeviceStep(c, <<OpLinear(local[c].ffn_output_data, gating_buf_,
                                Pitch(weights[c], local[c].inter_size), local[c].token_num,
                                "output", "kGemm", lora_buf_, local[c].lora_mask),
                       OpSync>>, "L158")
    /\ UNCHANGED <<layerVars, argVars, local, is_free_buffer_after_forward_>>

\* line 158
FwdW2Count(c) ==
    /\ pc[c] = "L158"
    /\ Issue(c, <<OpCountAndFix(local[c].ffn_output_data,
                                local[c].token_num * weights[c].output_output_dims,
                                "w2", 3)>>)
    /\ Goto(c, "L160")
    /\ UNCHANGED <<layerVars, argVars, local, is_free_buffer_after_forward_>>

\* forward releasing the buffers at the end of every call, whatever the policy
FwdFree_always(c) ==
    /\ pc[c] = "L160"
    /\ LET r == freeBuffer IN
       /\ SetLayer(r)
       /\ Issue(c, <<[op |-> "freeBuffer"]>> \o r.log)
    /\ Goto(c, "returned")
    /\ UNCHANGED <<argVars, local, is_free_buffer_after_forward_>>

\* lines 160-163: the buffers are released under the free-after-forward
\* policy and the call returns
FwdFree(c) ==
    /\ pc[c] = "L160"
    /\ IF is_free_buffer_after_forward_
       THEN LET r == freeBuffer IN
            /\ SetLayer(r)
            /\ Issue(c, <<[op |-> "freeBuffer"]>> \o r.log)
       ELSE UNCHANGED <<layerVars, ops>>
    /\ Goto(c, "returned")
    /\ UNCHANGED <<argVars, local, is_free_buffer_after_forward_>>

\* line 163, or the propagation of an exception: the call is over and its
\* frame is gone
FwdEnd(c) ==
    /\ pc[c] \in {"returned", "threw"}
    /\ Goto(c, "idle")
    /\ input_tensors' = [input_tensors EXCEPT ![c] = NoInputs]
    /\ output_tensors' = [output_tensors EXCEPT ![c] = NoOutputs]
    /\ weights' = [weights EXCEPT ![c] = NoWeights]
    /\ local' = [local EXCEPT ![c] = NoLocal]
    /\ ops' = [ops EXCEPT ![c] = <<>>]
    /\ UNCHANGED <<layerVars, is_free_buffer_after_forward_>>

\* ---------------------------------------------------------- specification
Init ==
    /\ gating_buf_ = NullPtr
    /\ inter_buf_ = NullPtr
    /\ lora_buf_ = NullPtr
    /\ is_allocate_buffer_ = FALSE
    /\ is_free_buffer_after_forward_ \in BOOLEAN
    /\ pointer_mapping = [a \in Addrs |-> 0]
    /\ pc = [c \in Callers |-> "idle"]
    /\ input_tensors = [c \in Callers |-> NoInputs]
    /\ output_tensors = [c \in Callers |-> NoOutputs]
    /\ weights = [c \in Callers |-> NoWeights]
    /\ local = [c \in Callers |-> NoLocal]
    /\ ops = [c \in Callers |-> <<>>]

\* lines 94-158: the lookups, projections, activation and diagnostics
PipelineSteps(c) ==
    \/ FwdGetPtrs(c)
    \/ FwdFusedLinear(c)
    \/ FwdFusedActivation(c)
    \/ FwdFusedNoActivation(c)
    \/ FwdFusedCount(c)
    \/ FwdW1(c)
    \/ FwdW1Count(c)
    \/ FwdW3(c)
    \/ FwdW3Count(c)
    \/ FwdAct(c)
    \/ FwdActCount(c)
    \/ FwdW2(c)
    \/ FwdW2Count(c)

\* the steps of a call that has been entered, up to its return or throw.
\* No other call runs on the instance meanwhile, so allocateBuffer and
\* freeBuffer each take one step.
ForwardSteps(c) == FwdAllocate(c) \/ PipelineSteps(c) \/ FwdFree(c)

Forward(c) == FwdBegin(c) \/ ForwardSteps(c) \/ FwdEnd(c)

\* one forward call at a time on the layer instance
Next == \E c \in SeqCallers : Forward(c)

Spec == Init /\ [][Next]_vars

\* Calls from several threads on the one layer instance.  forward takes no
\* lock, so the threads interleave at every access to a member: in
\* allocateBuffer the load of the handle passed to reMalloc, the allocator
\* call and the store of its result are separate steps, and so are the
\* statements of freeBuffer.  An allocator call is one step.  The stores of
\* lora_buf_ (line 38) and is_allocate_buffer_ (line 41) are plain stores
\* with no call between them, so they reach memory in either order.
AllocateBufferEntry(c) ==
    [op |-> "allocateBuffer",
     token_num |-> local[c].token_num,
     inter_size |-> local[c].inter_size,
     inter_buf_factor |-> InterBufFactor(local[c].is_fused_silu),
     gating_lora_r |-> weights[c].gating_lora_r,
     inter_lora_r |-> weights[c].inter_lora_r]

SetTmp(c, p) == local' = [local EXCEPT ![c].tmp = p]

\* line 92 and the argument gating_buf_ of line 34
AllocLoadGating(c) ==
    /\ pc[c] = "L92"
    /\ SetTmp(c, gating_buf_)
    /\ Issue(c, <<AllocateBufferEntry(c)>>)
    /\ Goto(c, "L34")
    /\ UNCHANGED <<layerVars, argVars, is_free_buffer_after_forward_>>

\* line 34: allocator_->reMalloc(gating_buf_, ...)
AllocReMallocGating(c) ==
    /\ pc[c] = "L34"
    /\ LET r == ReMalloc(pointer_mapping, local[c].tmp,
                         GatingSize(local[c].token_num, local[c].inter_size,
                                    InterBufFactor(local[c].is_fused_silu)))
       IN /\ pointer_mapping' = r.pm
          /\ SetTmp(c, r.ptr)
          /\ Issue(c, Tag("gating_buf_", r.log))
    /\ Goto(c, "L34s")
    /\ UNCHANGED <<gating_buf_, inter_buf_, lora_buf_, is_allocate_buffer_,
                   argVars, is_free_buffer_after_forward_>>

\* line 34: gating_buf_ = ...
AllocStoreGating(c) ==
    /\ pc[c] = "L34s"
    /\ gating_buf_' = local[c].tmp
    /\ Goto(c, "L35")
    /\ UNCHANGED <<inter_buf_, lora_buf_, is_allocate_buffer_, pointer_mapping,
                   argVars, local, ops, is_free_buffer_after_forward_>>

\* line 35: gating_buf_ is loaded
AllocLoadInter(c) ==
    /\ pc[c] = "L35"
    /\ SetTmp(c, gating_buf_)
    /\ Goto(c, "L35s")
    /\ UNCHANGED <<layerVars, argVars, ops, is_free_buffer_after_forward_>>

\* line 35: inter_buf_ = gating_buf_ + sz
AllocStoreInter(c) ==
    /\ pc[c] = "L35s"
    /\ inter_buf_' = PtrAdd(local[c].tmp, local[c].token_num * local[c].inter_size)
    /\ Goto(c, "L37")
    /\ UNCHANGED <<gating_buf_, lora_buf_, is_allocate_buffer_, pointer_mapping,
                   argVars, local, ops, is_free_buffer_after_forward_>>

\* line 37 and the argument lora_buf_ of line 38
AllocLoadLora(c) ==
    /\ pc[c] = "L37"
    /\ IF NeedsLora(weights[c].gating_lora_r, weights[c].inter_lora_r)
       THEN /\ SetTmp(c, lora_buf_)
            /\ Goto(c, "L38")
       ELSE /\ UNCHANGED local
            /\ Goto(c, "L41")
    /\ UNCHANGED <<layerVars, argVars, ops, is_free_buffer_after_forward_>>

\* line 38: allocator_->reMalloc(lora_buf_, ...)
AllocReMallocLora(c) ==
    /\ pc[c] = "L38"
    /\ LET r == ReMalloc(pointer_mapping, local[c].tmp,
                         LoraSize(local[c].token_num, weights[c].gating_lora_r,
                                  weights[c].inter_lora_r))
       IN /\ pointer_mapping' = r.pm
          /\ SetTmp(c, r.ptr)
          /\ Issue(c, Tag("lora_buf_", r.log))
    /\ Goto(c, "L38s")
    /\ UNCHANGED <<gating_buf_, inter_buf_, lora_buf_, is_allocate_buffer_,
                   argVars, is_free_buffer_after_forward_>>

\* line 38: lora_buf_ = ..., before or after the store of line 41
AllocStoreLora(c) ==
    /\ pc[c] \in {"L38s", "L38f"}
    /\ lora_buf_' = local[c].tmp
    /\ Goto(c, IF pc[c] = "L38s" THEN "L41" ELSE "L94")
    /\ UNCHANGED <<gating_buf_, inter_buf_, is_allocate_buffer_, pointer_mapping,
                   argVars, local, ops, is_free_buffer_after_forward_>>

\* line 41, after the store of line 38 or ahead of it
AllocSetFlag(c) ==
    /\ pc[c] \in {"L41", "L38s"}
    /\ is_allocate_buffer_' = TRUE
    /\ Goto(c, IF pc[c] = "L41" THEN "L94" ELSE "L38f")
    /\ UNCHANGED <<gating_buf_, inter_buf_, lora_buf_, pointer_mapping,
                   argVars, local, ops, is_free_buffer_after_forward_>>

AllocateBufferSteps(c) ==
    \/ AllocLoadGating(c)
    \/ AllocReMallocGating(c)
    \/ AllocStoreGating(c)
    \/ AllocLoadInter(c)
    \/ AllocStoreInter(c)
    \/ AllocLoadLora(c)
    \/ AllocReMallocLora(c)
    \/ AllocStoreLora(c)
    \/ AllocSetFlag(c)

\* line 160, and line 47 when freeBuffer is called
FreeTestFlag(c) ==
    /\ pc[c] = "L160"
    /\ IF is_free_buffer_after_forward_
       THEN /\ Issue(c, <<[op |-> "freeBuffer"]>>)
            /\ Goto(c, IF is_allocate_buffer_ THEN "L48" ELSE "returned")
       ELSE /\ UNCHANGED ops
            /\ Goto(c, "returned")
    /\ UNCHANGED <<layerVars, argVars, local, is_free_buffer_after_forward_>>

\* line 48: allocator_->free((void**)&gating_buf_)
FreeGating(c) ==
    /\ pc[c] = "L48"
    /\ LET g == Free(pointer_mapping, gating_buf_)
       IN /\ pointer_mapping' = g.pm
          /\ gating_buf_' = g.ptr
          /\ Issue(c, Tag("gating_buf_", g.log))
    /\ Goto(c, "L49")
    /\ UNCHANGED <<inter_buf_, lora_buf_, is_allocate_buffer_,
                   argVars, local, is_free_buffer_after_forward_>>

\* line 49: allocator_->free((void**)&lora_buf_)
FreeLora(c) ==
    /\ pc[c] = "L49"
    /\ LET l == Free(pointer_mapping, lora_buf_)
       IN /\ pointer_mapping' = l.pm
          /\ lora_buf_' = l.ptr
          /\ Issue(c, Tag("lora_buf_", l.log))
    /\ Goto(c, "L50")
    /\ UNCHANGED <<gating_buf_, inter_buf_, is_allocate_buffer_,
                   argVars, local, is_free_buffer_after_forward_>>

\* line 50
FreeClearFlag(c) ==
    /\ pc[c] = "L50"
    /\ is_allocate_buffer_' = FALSE
    /\ Goto(c, "returned")
    /\ UNCHANGED <<gating_buf_, inter_buf_, lora_buf_, pointer_mapping,
                   argVars, local, ops, is_free_buffer_after_forward_>>

FreeBufferSteps(c) ==
    \/ FreeTestFlag(c)
    \/ FreeGating(c)
    \/ FreeLora(c)
    \/ FreeClearFlag(c)

\* lines 60-62 called from line 107: gating_buf_ is loaded once for each
\* of the two pointer arguments
ChunkedActivationCall(c, r) ==
    <<OpActivation(r.gating, r.inter, local[c].inter_size * 2,
                   local[c].token_num, local[c].inter_size),
      OpSync>>

\* lines 115-122
W1Call(c, r) ==
    <<OpLinear(r.gating, local[c].ffn_input_data, 0, local[c].token_num,
               "gating", "kGemm", r.lora, local[c].lora_mask),
      OpSync>>

\* lines 128-135
W3Call(c, r) ==
    <<OpLinear(r.inter, local[c].ffn_input_data, 0, local[c].token_num,
               "intermediate", "kGemm", r.lora, local[c].lora_mask),
      OpSync>>

\* lines 66-67 called from line 140
SeparateActivationCall(c, r) ==
    <<OpActivation(r.gating, r.inter, local[c].inter_size,
                   local[c].token_num, local[c].inter_size),
      OpSync>>

\* lines 147-155
W2Call(c, r) ==
    <<OpLinear(local[c].ffn_output_data, r.gating,
               Pitch(weights[c], local[c].inter_size), local[c].token_num,
               "output", "kGemm", r.lora, local[c].lora_mask),
      OpSync>>

CallWith(c, call, r) ==
    CASE call = "activation_chunked" -> ChunkedActivationCall(c, r)
      [] call = "w1" -> W1Call(c, r)
      [] call = "w3" -> W3Call(c, r)
      [] call = "activation" -> SeparateActivationCall(c, r)
      [] call = "w2" -> W2Call(c, r)

\* The arguments of a kernel call are evaluated one member load at a time,
\* in an order the language leaves open; `src` gives, per argument, the
\* value a load of its member yields now.  With the last load the call is
\* made with the values loaded, and its checkpoint follows.
LoadThen(c, src, call, next) ==
    /\ \E a \in (DOMAIN src) \ local[c].loaded :
           LET regs == [local[c].regs EXCEPT ![a] = src[a]] IN
           IF local[c].loaded \cup {a} = DOMAIN src
           THEN /\ local' = [local EXCEPT ![c].loaded = {}, ![c].regs = NoRegs]
                /\ DeviceStep(c, CallWith(c, call, regs), next)
           ELSE /\ local' = [local EXCEPT ![c].loaded = @ \cup {a}, ![c].regs = regs]
                /\ UNCHANGED <<pc, ops>>
    /\ UNCHANGED <<layerVars, argVars, is_free_buffer_after_forward_>>

\* lines 106-108, is_fused_silu unset
ConcFusedActivation(c) ==
    /\ pc[c] = "L106"
    /\ NeedsActivation(weights[c])
    /\ LoadThen(c, [gating |-> gating_buf_,
                    inter |-> PtrAdd(gating_buf_, local[c].inter_size)],
                "activation_chunked", "L110")

\* lines 112-123
ConcW1(c) ==
    /\ pc[c] = "L98"
    /\ ~weights[c].fused_kernel
    /\ LoadThen(c, [gating |-> gating_buf_, lora |-> lora_buf_], "w1", "L124")

\* lines 126-136
ConcW3(c) ==
    /\ pc[c] = "L126"
    /\ LoadThen(c, [inter |-> inter_buf_, lora |-> lora_buf_], "w3", "L137")

\* line 140
ConcAct(c) ==
    /\ pc[c] = "L140"
    /\ LoadThen(c, [gating |-> gating_buf_, inter |-> inter_buf_], "activation", "L142")

\* lines 145-156
ConcW2(c) ==
    /\ pc[c] = "L145"
    /\ LoadThen(c, [gating |-> gating_buf_, lora |-> lora_buf_], "w2", "L158")

\* lines 94-158 with the loads of the members interleaved; the statements
\* that load one member are single steps as they are
ConcPipelineSteps(c) ==
    \/ FwdGetPtrs(c)
    \/ FwdFusedLinear(c)
    \/ ConcFusedActivation(c)
    \/ FwdFusedNoActivation(c)
    \/ FwdFusedCount(c)
    \/ ConcW1(c)
    \/ FwdW1Count(c)
    \/ ConcW3(c)
    \/ FwdW3Count(c)
    \/ ConcAct(c)
    \/ FwdActCount(c)
    \/ ConcW2(c)
    \/ FwdW2Count(c)

\* Each thread makes one call.  The calls are complete (every named tensor
\* present); the weights are one per path without adapters, and the
\* unfused weights with adapters on gate and up.  The number of tokens
\* varies for the unfused weights without adapters.
ConcInputs == {it \in InputTensorMaps : it.keys = InputKeys}
ConcOutputs == {ot \in OutputTensorMaps : ot.keys = OutputKeys}
ConcWeights == {w \in Weights :
                  /\ w.gating_lora_r = w.inter_lora_r
                  /\ w.is_fused_silu => w.fused_kernel
                  /\ w.fused_kernel => w.gating_lora_r = 0}

\* The threads are interchangeable, so of two runs that differ only in
\* which thread was given which call one is kept: the calls in flight are
\* ordered by thread.
CallKey(it, w) ==
    it.token_num
        + MaxTokens * (w.gating_lora_r
                         + (MaxRank + 1) * ((IF w.fused_kernel THEN 1 ELSE 0)
                                              + (IF w.is_fused_silu THEN 2 ELSE 0)))

CallsOrdered ==
    \A c \in Callers, d \in Callers :
        (c < d /\ pc[c] # "idle" /\ pc[d] # "idle") =>
            CallKey(input_tensors[c], weights[c]) <= CallKey(input_tensors[d], weights[d])

FwdBeginConc(c) ==
    /\ FwdBeginWith(c, ConcInputs, ConcOutputs, ConcWeights)
    /\ (weights'[c].fused_kernel \/ weights'[c].gating_lora_r > 0) =>
           input_tensors'[c].token_num = 1
    /\ CallsOrdered'

NextConc ==
    \E c \in Callers :
        \/ FwdBeginConc(c)
        \/ AllocateBufferSteps(c)
        \/ ConcPipelineSteps(c)
        \/ FreeBufferSteps(c)

SpecConc == Init /\ [][NextConc]_vars

\* Resource exhaustion: a reMalloc that has to acquire memory may fail, and
\* the allocator's exception leaves allocateBuffer at that statement.
MallocNeeded(pm, p, size) == ~(isExist(pm, p) /\ pm[p.base] >= size)

\* reMalloc whose acquisition fails: a region that had to grow is already
\* released, nothing is handed back
ReMallocThrows(pm, p, size) ==
    LET req == <<[op |-> "reMalloc", ptr |-> p, size |-> size]>>
        bad == <<[op |-> "bad_alloc", ptr |-> NullPtr, size |-> size]>>
    IN IF isExist(pm, p)
       THEN [pm |-> [pm EXCEPT ![p.base] = 0],
             log |-> req \o <<[op |-> "free", ptr |-> p, size |-> pm[p.base]]>> \o bad]
       ELSE [pm |-> pm, log |-> req \o bad]

\* lines 28-42 left by an exception of the reMalloc at line 34 (the members
\* are as before) or of the one at line 38 (gating_buf_ and inter_buf_ are
\* assigned, line 41 is not reached)
allocateBufferThrows(token_num, inter_size, inter_buf_factor, gating_lora_r, inter_lora_r, at) ==
    LET sz == token_num * inter_size
        gsize == GatingSize(token_num, inter_size, inter_buf_factor)
        lsize == LoraSize(token_num, gating_lora_r, inter_lora_r)
        g == ReMalloc(pointer_mapping, gating_buf_, gsize)
        gt == ReMallocThrows(pointer_mapping, gating_buf_, gsize)
        lt == ReMallocThrows(g.pm, lora_buf_, lsize)
    IN IF at = "gating_buf_"
       THEN [possible |-> MallocNeeded(pointer_mapping, gating_buf_, gsize),
             gating_buf_ |-> gating_buf_,
             inter_buf_ |-> inter_buf_,
             lora_buf_ |-> lora_buf_,
             is_allocate_buffer_ |-> is_allocate_buffer_,
             pointer_mapping |-> gt.pm,
             log |-> Tag("gating_buf_", gt.log)]
       ELSE [possible |-> NeedsLora(gating_lora_r, inter_lora_r)
                              /\ MallocNeeded(g.pm, lora_buf_, lsize),
             gating_buf_ |-> g.ptr,
             inter_buf_ |-> PtrAdd(g.ptr, sz),
             lora_buf_ |-> lora_buf_,
             is_allocate_buffer_ |-> is_allocate_buffer_,
             pointer_mapping |-> lt.pm,
             log |-> Tag("gating_buf_", g.log) \o Tag("lora_buf_", lt.log)]

\* line 92, allocateBuffer throwing
FwdAllocateThrows(c) ==
    /\ pc[c] = "L92"
    /\ \E at \in {"gating_buf_", "lora_buf_"} :
           LET r == allocateBufferThrows(local[c].token_num, local[c].inter_size,
                                         InterBufFactor(local[c].is_fused_silu),
                                         weights[c].gating_lora_r, weights[c].inter_lora_r,
                                         at)
           IN /\ r.possible
              /\ SetLayer(r)
              /\ Issue(c, <<[op |-> "allocateBuffer",
                             token_num |-> local[c].token_num,
                             inter_size |-> local[c].inter_size,
                             inter_buf_factor |-> InterBufFactor(local[c].is_fused_silu),
                             gating_lora_r |-> weights[c].gating_lora_r,
                             inter_lora_r |-> weights[c].inter_lora_r]>> \o r.log)
    /\ Goto(c, "threw")
    /\ UNCHANGED <<argVars, local, is_free_buffer_after_forward_>>

\* lines 44-52 called between two forward calls
CallFreeBuffer ==
    /\ \A c \in Callers : pc[c] = "idle"
    /\ SetLayer(freeBuffer)
    /\ UNCHANGED <<argVars, local, ops, pc, is_free_buffer_after_forward_>>

\* forward calls one at a time with an allocator that can run out of
\* memory, and freeBuffer between the calls
NextAlloc ==
    \/ \E c \in SeqCallers : Forward(c) \/ FwdAllocateThrows(c)
    \/ CallFreeBuffer

SpecAlloc == Init /\ [][NextAlloc]_vars

\* ------------------------------------------------------------ properties
\* the three paths of the projection pipeline, by weight configuration
PathOf(w) ==
    IF w.fused_kernel /\ w.is_fused_silu THEN "FUSED_SILU"
    ELSE IF w.fused_kernel THEN "FUSED_UNACTIVATED"
    ELSE "UNFUSED"

FactorOf(w) == IF PathOf(w) = "FUSED_SILU" THEN 1 ELSE 2

InCall(c) == pc[c] # "idle"

\* positions of forward between the return of allocateBuffer and the end of the call
AfterAlloc == {"L94", "L98", "L106", "L110", "L124", "L126", "L137", "L140",
               "L142", "L145", "L158", "L160", "L48", "L49", "L50"}

\* the two layouts of the activation
Chunked(e) == e.stride = 2 * e.dims /\ e.inter = PtrAdd(e.inout, e.dims)
Separate(e) == e.stride = e.dims /\ e.inter = PtrAdd(e.inout, e.n * e.dims)

IsProjOrAct(e) == e.op \in {"linear", "activation"}

DeviceLabel(e) ==
    IF e.op = "linear" THEN e.weight
    ELSE IF Chunked(e) THEN "activation_chunked"
    ELSE IF Separate(e) THEN "activation_separate"
    ELSE "activation_other"

\* the projections and activations a call has issued, in order
Issued(c) ==
    LET s == SelectSeq(ops[c], IsProjOrAct) IN
    [i \in 1..Len(s) |-> DeviceLabel(s[i])]

ExpectedOps(path) ==
    IF path = "FUSED_SILU" THEN <<"fused_gating_intermediate", "output">>
    ELSE IF path = "FUSED_UNACTIVATED"
         THEN <<"fused_gating_intermediate", "activation_chunked", "output">>
    ELSE <<"gating", "intermediate", "activation_separate", "output">>

HasEntry(c, kind) == \E i \in 1..Len(ops[c]) : ops[c][i].op = kind

\* C1: every decision a forward call takes (buffer factor, projection
\* weights and mode, whether and how the activation is invoked, the stride of
\* the down-projection) is the decision of the one path its weight
\* configuration selects: FUSED_SILU iff the fused kernel is present and
\* is_fused_silu is set, FUSED_UNACTIVATED iff it is present and
\* is_fused_silu is not set, UNFUSED otherwise.
C1_PathAgreement ==
    \A c \in Callers : InCall(c) =>
        LET w == weights[c]
            path == PathOf(w)
        IN /\ \A i \in 1..Len(ops[c]) :
                LET e == ops[c][i] IN
                /\ e.op = "allocateBuffer" =>
                       e.inter_buf_factor = (IF path = "FUSED_SILU" THEN 1 ELSE 2)
                /\ (e.op = "linear" /\ e.weight # "output") =>
                       IF path = "FUSED_SILU"
                       THEN e.weight = "fused_gating_intermediate" /\ e.type = "kFusedSiluFfn"
                       ELSE IF path = "FUSED_UNACTIVATED"
                       THEN e.weight = "fused_gating_intermediate" /\ e.type = "kGemm"
                       ELSE e.weight \in {"gating", "intermediate"} /\ e.type = "kGemm"
                /\ e.op = "activation" =>
                       IF path = "FUSED_SILU" THEN FALSE
                       ELSE IF path = "FUSED_UNACTIVATED" THEN Chunked(e)
                       ELSE Separate(e)
                /\ (e.op = "linear" /\ e.weight = "output") =>
                       e.pitch = (IF path = "FUSED_UNACTIVATED" THEN 2 * w.inter_size ELSE 0)
           /\ pc[c] = "returned" =>
                /\ HasEntry(c, "allocateBuffer")
                /\ \E i \in 1..Len(ops[c]) :
                       ops[c][i].op = "linear" /\ ops[c][i].weight = "output"

C1_Witness ==
    /\ pc[1] = "returned"
    /\ PathOf(weights[1]) = "FUSED_UNACTIVATED"
    /\ \E i \in 1..Len(ops[1]) :
           /\ ops[1][i].op = "linear"
           /\ ops[1][i].weight = "output"
           /\ ops[1][i].pitch = 2 * InterSize

\* C2: in every forward call that returns, the projections and the
\* activation were issued in the order and number of the selected path:
\* FUSED_SILU the fused projection; FUSED_UNACTIVATED the fused projection,
\* then one chunked activation; UNFUSED the gate projection, the up
\* projection, then one separate activation; and in each path one
\* down-projection, last.
C2_OperationOrder ==
    \A c \in Callers :
        pc[c] = "returned" => Issued(c) = ExpectedOps(PathOf(weights[c]))

C2_Witness ==
    /\ pc[1] = "returned"
    /\ Issued(1) = <<"gating", "intermediate", "activation_separate", "output">>

\* C3: from the return of allocateBuffer until the forward call ends, the
\* gating region holds at least token_count * intermediate_size * factor
\* elements and, when gate_rank + up_rank > 0, the adapter workspace holds
\* at least token_count * (gate_rank + up_rank) elements.
C3_BuffersSuffice ==
    \A c \in Callers : pc[c] \in AfterAlloc =>
        LET t == input_tensors[c].token_num
            w == weights[c]
        IN /\ Capacity(pointer_mapping, gating_buf_) >= t * w.inter_size * FactorOf(w)
           /\ (w.gating_lora_r + w.inter_lora_r > 0 =>
                   Capacity(pointer_mapping, lora_buf_)
                       >= t * (w.gating_lora_r + w.inter_lora_r))

\* a call that reuses a region larger than it needs, left by an earlier call
C3_Witness ==
    /\ pc[1] = "L145"
    /\ weights[1].gating_lora_r + weights[1].inter_lora_r > 0
    /\ Capacity(pointer_mapping, gating_buf_)
           > input_tensors[1].token_num * weights[1].inter_size * FactorOf(weights[1])
    /\ Capacity(pointer_mapping, lora_buf_)
           > input_tensors[1].token_num * (weights[1].gating_lora_r + weights[1].inter_lora_r)

\* the elements a call needs in the gating region and in the adapter workspace
GatingNeed(c) ==
    input_tensors[c].token_num * weights[c].inter_size * FactorOf(weights[c])
LoraNeed(c) ==
    input_tensors[c].token_num * (weights[c].gating_lora_r + weights[c].inter_lora_r)
ZeroRanks(w) == w.gating_lora_r = 0 /\ w.inter_lora_r = 0

GatingHeld == Capacity(pointer_mapping, gating_buf_)
LoraHeld == Capacity(pointer_mapping, lora_buf_)

\* an allocator call of the given kind made for the member `buf`
AllocEntry(e, kind, buf) == e.op = kind /\ e.buf = buf
HasAlloc(log, kind, buf) == \E i \in 1..Len(log) : AllocEntry(log[i], kind, buf)

\* C4 as stated: after allocateBuffer the gating region held has exactly
\* token_count * intermediate_size * factor elements, in every forward call.
C4_ExactSize_Original ==
    \A c \in Callers : pc[c] \in AfterAlloc =>
        /\ isExist(pointer_mapping, gating_buf_)
        /\ pointer_mapping[gating_buf_.base] = GatingNeed(c)

\* C4 amended: allocateBuffer requests exactly token_count *
\* intermediate_size * factor elements for the gating region (factor 1 iff
\* FUSED_SILU); the region held afterwards has exactly that many elements
\* when the call acquired or grew it, and at least that many when a larger
\* region left by an earlier call is reused.
C4_ExactRequest ==
    \A c \in Callers : pc[c] \in AfterAlloc =>
        /\ HasAlloc(ops[c], "reMalloc", "gating_buf_")
        /\ \A i \in 1..Len(ops[c]) :
               AllocEntry(ops[c][i], "reMalloc", "gating_buf_") =>
                   ops[c][i].size = GatingNeed(c)
        /\ isExist(pointer_mapping, gating_buf_)
        /\ IF HasAlloc(ops[c], "malloc", "gating_buf_")
           THEN pointer_mapping[gating_buf_.base] = GatingNeed(c)
           ELSE pointer_mapping[gating_buf_.base] >= GatingNeed(c)

C4_Witness ==
    /\ pc[1] = "L94"
    /\ PathOf(weights[1]) = "FUSED_SILU"
    /\ input_tensors[1].token_num = 2
    /\ HasAlloc(ops[1], "free", "gating_buf_")
    /\ HasAlloc(ops[1], "malloc", "gating_buf_")
    /\ pointer_mapping[gating_buf_.base] = 2 * InterSize

\* C5: in performance mode the capacity of the gating region never
\* decreases; allocateBuffer grows the region when the call needs more than
\* is held and otherwise keeps the region it has, without an allocator
\* malloc or free.
C5_GrowOnly ==
    [][~is_free_buffer_after_forward_ =>
        /\ GatingHeld' >= GatingHeld
        /\ \A c \in Callers : (pc[c] = "L92" /\ pc'[c] = "L94") =>
               IF GatingNeed(c) > GatingHeld
               THEN /\ GatingHeld' >= GatingNeed(c)
                    /\ HasAlloc(ops'[c], "malloc", "gating_buf_")
               ELSE /\ gating_buf_' = gating_buf_
                    /\ GatingHeld' = GatingHeld
                    /\ ~HasAlloc(ops'[c], "malloc", "gating_buf_")
                    /\ ~HasAlloc(ops'[c], "free", "gating_buf_")]_vars

\* a later, smaller call reusing the region an earlier call grew
C5_Witness ==
    /\ ~is_free_buffer_after_forward_
    /\ pc[1] = "L94"
    /\ GatingHeld > GatingNeed(1)
    /\ HasAlloc(ops[1], "reMalloc", "gating_buf_")
    /\ ~HasAlloc(ops[1], "malloc", "gating_buf_")

\* C6 as stated: a forward call with gate_rank = up_rank = 0 allocates no
\* adapter workspace and returns with lora_buf_ empty, whatever calls
\* preceded it.
C6_NoWorkspace_Original ==
    \A c \in Callers : (pc[c] = "returned" /\ ZeroRanks(weights[c])) =>
        /\ ~HasAlloc(ops[c], "reMalloc", "lora_buf_")
        /\ lora_buf_ = NullPtr

\* C6 amended: a forward call with gate_rank = up_rank = 0 makes no
\* allocator request for the adapter workspace; lora_buf_ is empty when the
\* call returns if it was empty when the call began or the
\* free-after-forward policy is enabled, and in performance mode the call
\* leaves lora_buf_ as it found it (a workspace of an earlier call stays held).
C6_NoWorkspaceRequest ==
    [][\A c \in Callers : (pc'[c] # "idle" /\ ZeroRanks(weights'[c])) =>
        /\ ~HasAlloc(ops'[c], "reMalloc", "lora_buf_")
        /\ ~HasAlloc(ops'[c], "malloc", "lora_buf_")
        /\ lora_buf_ = NullPtr => lora_buf_' = NullPtr
        /\ ~is_free_buffer_after_forward_ => lora_buf_' = lora_buf_
        /\ (is_free_buffer_after_forward_ /\ pc'[c] = "returned") => lora_buf_' = NullPtr]_vars

C6_Witness ==
    /\ pc[1] = "returned"
    /\ ZeroRanks(weights[1])
    /\ ~is_free_buffer_after_forward_
    /\ lora_buf_ = NullPtr
    /\ isExist(pointer_mapping, gating_buf_)

Released ==
    /\ gating_buf_ = NullPtr
    /\ lora_buf_ = NullPtr
    /\ ~is_allocate_buffer_
    /\ \A a \in Addrs : pointer_mapping[a] = 0

HeldFor(c) ==
    /\ is_allocate_buffer_
    /\ GatingHeld >= GatingNeed(c)
    /\ LoraNeed(c) > 0 => LoraHeld >= LoraNeed(c)

\* C7 as stated: under the free-after-forward policy both regions are
\* released at the end of every forward call, however the call ends; with
\* the policy disabled the regions of a call are still held afterwards.
C7_FreePolicy_Original ==
    \A c \in Callers :
        /\ (is_free_buffer_after_forward_ /\ pc[c] \in {"returned", "threw"}) => Released
        /\ (~is_free_buffer_after_forward_ /\ pc[c] = "returned") => HeldFor(c)

IsDeviceOp(e) == e.op \in {"linear", "activation", "count_and_fix"}
IsGateUp(e) ==
    e.op = "linear" /\ e.weight \in {"fused_gating_intermediate", "gating", "intermediate"}
IsDown(e) == e.op = "linear" /\ e.weight = "output"

\* C8: a forward call whose input map lacks ffn_input or layer_id fails
\* before any device operation: the call throws and has issued no
\* projection, activation or diagnostics call.
C8_MissingInputFailsFirst ==
    \A c \in Callers :
        (InCall(c) /\ ~({"ffn_input", "layer_id"} \subseteq input_tensors[c].keys)) =>
            /\ pc[c] = "threw"
            /\ \A i \in 1..Len(ops[c]) : ~IsDeviceOp(ops[c][i])

\* layer_id missing, on a layer instance that has served a call before
C8_Witness ==
    /\ pc[1] = "threw"
    /\ input_tensors[1].keys = {"ffn_input", "lora_mask"}
    /\ ops[1] = <<>>
    /\ is_allocate_buffer_

\* C9 as stated: when gate or up has a nonzero adapter rank, every
\* projection call computing gate and/or up, in every path, is given the
\* adapter workspace and the per-token mask of the call.
C9_AdapterOnGateUp ==
    \A c \in Callers :
        (InCall(c) /\ ~ZeroRanks(weights[c])) =>
            \A i \in 1..Len(ops[c]) :
                IsGateUp(ops[c][i]) =>
                    /\ ops[c][i].lora_buff # NullPtr
                    /\ ops[c][i].lora_mask = LoraMaskPtr(input_tensors[c])

\* C10 as stated: the down-projection is never given the adapter workspace
\* or the per-token mask.
C10_DownCarriesNoAdapter ==
    \A c \in Callers :
        InCall(c) =>
            \A i \in 1..Len(ops[c]) :
                IsDown(ops[c][i]) =>
                    /\ ops[c][i].lora_buff = NullPtr
                    /\ ops[c][i].lora_mask = NullPtr

\* scratch elements: those of the allocator's regions
Scratch(S) == {x \in S : x[1] \in Addrs}

\* what the operations before position i of the call's log have written
WrittenBefore(c, i) ==
    UNION {Writes(ops[c][j], weights[c]) : j \in 1..(i - 1)}

\* C11: in every path, every scratch element read by a projection, the
\* activation or a diagnostics call was written earlier in the same call,
\* so the output of a call does not depend on what earlier calls left in
\* the scratch regions.
C11_ReadsAreWritten ==
    \A c \in Callers : InCall(c) =>
        \A i \in 1..Len(ops[c]) :
            Scratch(Reads(ops[c][i], weights[c])) \subseteq WrittenBefore(c, i)

\* a two-token FUSED_UNACTIVATED call that returned on a region an earlier
\* call left behind
C11_Witness ==
    /\ pc[1] = "returned"
    /\ ~is_free_buffer_after_forward_
    /\ PathOf(weights[1]) = "FUSED_UNACTIVATED"
    /\ input_tensors[1].token_num = 2
    /\ ~HasAlloc(ops[1], "malloc", "gating_buf_")
    /\ \E i \in 1..Len(ops[1]) :
           IsDown(ops[1][i]) /\ Scratch(Reads(ops[1][i], weights[1])) # {}

\* the scratch elements the operations a call has issued so far touch
Footprint(c) ==
    UNION {Scratch(Reads(ops[c][i], weights[c]) \cup Writes(ops[c][i], weights[c])) :
               i \in 1..Len(ops[c])}

\* the allocator regions the operations a call has issued so far were
\* handed: the gating region and the adapter workspace
PointerArgs(e) ==
    IF e.op = "linear" THEN {e.dst, e.src, e.lora_buff}
    ELSE IF e.op = "activation" THEN {e.inout, e.inter}
    ELSE IF e.op = "count_and_fix" THEN {e.data}
    ELSE {}
UsedRegions(c) ==
    {p.base : p \in UNION {PointerArgs(ops[c][i]) : i \in 1..Len(ops[c])}} \cap Addrs

IsProducer(e) ==
    e.op = "activation" \/ (e.op = "linear" /\ e.type = "kFusedSiluFfn")
Producers(c, i) == {j \in 1..(i - 1) : IsProducer(ops[c][j])}
LastProducer(c, i) == CHOOSE j \in Producers(c, i) : \A k \in Producers(c, i) : k <= j

\* C13: the down-projection is given the stride 2 * inter_size exactly in
\* FUSED_UNACTIVATED and the stride zero in FUSED_SILU and UNFUSED, and
\* the elements it reads are exactly the elements the gated product was
\* written to.
C13_DownReadsGatedProduct ==
    \A c \in Callers : InCall(c) =>
        \A i \in 1..Len(ops[c]) :
            IsDown(ops[c][i]) =>
                /\ ops[c][i].pitch =
                       (IF PathOf(weights[c]) = "FUSED_UNACTIVATED"
                        THEN 2 * weights[c].inter_size ELSE 0)
                /\ Producers(c, i) # {}
                /\ Reads(ops[c][i], weights[c])
                       = Writes(ops[c][LastProducer(c, i)], weights[c])

C13_Witness ==
    /\ pc[1] = "returned"
    /\ PathOf(weights[1]) = "FUSED_UNACTIVATED"
    /\ input_tensors[1].token_num = 2
    /\ \E i \in 1..Len(ops[1]) :
           /\ IsDown(ops[1][i])
           /\ <<ops[1][i].src.base, ops[1][i].src.off + 2 * InterSize + 1>>
                  \in Reads(ops[1][i], weights[1])
           /\ <<ops[1][i].src.base, ops[1][i].src.off + InterSize>>
                  \notin Reads(ops[1][i], weights[1])

\* C14 as stated: once freeBuffer has released the buffers, the three
\* scratch handles (gating_buf_, inter_buf_, lora_buf_) are empty and none
\* refers to released memory, and the next allocateBuffer acquires fresh
\* regions.
C14_FreeEmptiesHandles ==
    /\ ~is_allocate_buffer_ =>
           /\ gating_buf_ = NullPtr
           /\ inter_buf_ = NullPtr
           /\ lora_buf_ = NullPtr
    /\ \A c \in Callers : pc[c] = "L94" =>
           \A i \in 1..Len(ops[c]) :
               (AllocEntry(ops[c][i], "reMalloc", "gating_buf_")
                    /\ ops[c][i].ptr = NullPtr) =>
                   HasAlloc(ops[c], "malloc", "gating_buf_")

\* C15: when a projection or the activation of a call fails with a device
\* error, the checkpoint after it ends the call: the error is the last entry
\* of the call's log (no later projection, activation or diagnostics call)
\* and the call is in its thrown state, never returned.
C15_DeviceErrorAborts ==
    \A c \in Callers :
        \A i \in 1..Len(ops[c]) :
            ops[c][i] = OpDeviceError =>
                /\ i = Len(ops[c])
                /\ i > 2
                /\ ops[c][i - 1] = OpSync
                /\ IsProjOrAct(ops[c][i - 2])
                /\ pc[c] = "threw"

C15_Witness ==
    \E c \in Callers :
        /\ pc[c] = "threw"
        /\ Len(ops[c]) > 2
        /\ ops[c][Len(ops[c])] = OpDeviceError
        /\ ops[c][Len(ops[c]) - 2].op = "activation"
        /\ \E i \in 1..Len(ops[c]) : ops[c][i].op = "linear"

\* C16 as stated: every device operation of a call, the diagnostics calls
\* included, is followed by a synchronization checkpoint before the next
\* device operation of that call is issued.
C16_SyncAfterEveryOp_Original ==
    \A c \in Callers :
        \A i, j \in 1..Len(ops[c]) :
            (i < j /\ IsDeviceOp(ops[c][i]) /\ IsDeviceOp(ops[c][j])) =>
                \E k \in (i + 1)..(j - 1) : ops[c][k] = OpSync

\* C16 amended: every projection and every activation of a call is followed
\* at once by a synchronization checkpoint; the diagnostics calls are issued
\* with no checkpoint of their own, each directly after a checkpoint.
C16_SyncAfterKernels ==
    \A c \in Callers :
        \A i \in 1..Len(ops[c]) :
            /\ IsProjOrAct(ops[c][i]) =>
                   /\ i < Len(ops[c])
                   /\ ops[c][i + 1] = OpSync
            /\ ops[c][i].op = "count_and_fix" =>
                   /\ i > 1
                   /\ ops[c][i - 1] = OpSync
                   /\ (i < Len(ops[c]) => ops[c][i + 1] # OpSync)

C16_Witness ==
    \E c \in Callers :
        /\ pc[c] = "returned"
        /\ PathOf(weights[c]) = "FUSED_UNACTIVATED"
        /\ \E i \in 1..Len(ops[c]) : ops[c][i].op = "activation" /\ Chunked(ops[c][i])
        /\ \E i \in 1..(Len(ops[c]) - 1) :
               /\ ops[c][i].op = "count_and_fix"
               /\ ops[c][i + 1].op = "linear"

LaterStages(c, i) == {j \in (i + 1)..Len(ops[c]) : IsProjOrAct(ops[c][j])}

Min(S) == CHOOSE x \in S : \A y \in S : x <= y

\* a diagnostics call among entries i+1..hi whose region is exactly what
\* the stage at i wrote
HookCovers(c, i, hi) ==
    \E k \in (i + 1)..hi :
        /\ ops[c][k].op = "count_and_fix"
        /\ Range(ops[c][k].data, ops[c][k].size) = Writes(ops[c][i], weights[c])

\* C17 as stated: in every path each projection and the activation is
\* followed, before the next projection or activation, by a diagnostics call
\* over exactly the elements that stage wrote (in FUSED_UNACTIVATED one after
\* the fused projection and one after the chunked activation over the strided
\* gated results).
C17_HookAfterEveryStage ==
    \A c \in Callers :
        \A i \in 1..Len(ops[c]) :
            IsProjOrAct(ops[c][i]) =>
                IF LaterStages(c, i) # {}
                THEN HookCovers(c, i, Min(LaterStages(c, i)) - 1)
                ELSE pc[c] = "returned" => HookCovers(c, i, Len(ops[c]))

\* the gating region as the call's allocateBuffer asked for it: the size of
\* its reMalloc request, from the address the allocator answered with
GatingRequest(c) ==
    LET r == CHOOSE i \in 1..Len(ops[c]) : AllocEntry(ops[c][i], "reMalloc", "gating_buf_")
        M == {i \in 1..Len(ops[c]) : AllocEntry(ops[c][i], "malloc", "gating_buf_")}
        base == IF M = {} THEN ops[c][r].ptr ELSE ops[c][CHOOSE i \in M : TRUE].ptr
    IN Range(base, ops[c][r].size)

\* the view computed at line 35 for the call
InterView(c) ==
    LET M == {i \in 1..Len(ops[c]) : AllocEntry(ops[c][i], "malloc", "gating_buf_")}
        r == CHOOSE i \in 1..Len(ops[c]) : AllocEntry(ops[c][i], "reMalloc", "gating_buf_")
        base == IF M = {} THEN ops[c][r].ptr ELSE ops[c][CHOOSE i \in M : TRUE].ptr
    IN PtrAdd(base, input_tensors[c].token_num * weights[c].inter_size)

\* C18: every scratch element a projection, the activation or a diagnostics
\* call of a forward call reads or writes lies inside the gating region as
\* that call's allocateBuffer asked for it; when the buffer factor is 1 no
\* operation is handed the intermediate view and no element at or past it
\* is accessed.
C18_AccessInsideGatingRegion ==
    \A c \in Callers : (InCall(c) /\ HasAlloc(ops[c], "reMalloc", "gating_buf_")) =>
        /\ Footprint(c) \subseteq GatingRequest(c)
        /\ FactorOf(weights[c]) = 1 =>
               /\ \A x \in Footprint(c) :
                      x[1] = InterView(c).base => x[2] < InterView(c).off
               /\ \A i \in 1..Len(ops[c]) :
                      /\ ops[c][i].op # "activation"
                      /\ ops[c][i].op = "linear" => ops[c][i].dst # InterView(c)

\* a returned two-token FUSED_SILU call whose accesses filled the region it
\* asked for, the intermediate view pointing one past its end
C18_Witness ==
    \E c \in Callers :
        /\ pc[c] = "returned"
        /\ input_tensors[c].token_num = MaxTokens
        /\ Footprint(c) = GatingRequest(c)
        /\ PathOf(weights[c]) = "FUSED_SILU"
        /\ Footprint(c) # {}

MissingInput(c) == ~({"ffn_input", "layer_id"} \subseteq input_tensors[c].keys)
MissingOutput(c) == "ffn_output" \notin output_tensors[c].keys

\* C19 as stated: a forward call that fails because ffn_input, layer_id or
\* ffn_output is missing never changes the scratch state: no step of such a
\* call allocates or resizes a region or changes the allocated flag.
C19_FailedLookup_Original ==
    [][\A c \in Callers :
           (pc'[c] # "idle" /\ (MissingInput(c)' \/ MissingOutput(c)')) =>
               UNCHANGED layerVars]_vars

\* C19 amended: a call that fails because ffn_input or layer_id is missing
\* never changes the scratch state; a call that fails because ffn_output is
\* missing fails at the lookup after allocateBuffer has run, with the
\* allocated flag true.
C19_FailedInputLookup ==
    [][\A c \in Callers :
           /\ (pc'[c] # "idle" /\ MissingInput(c)') => UNCHANGED layerVars
           /\ (pc[c] # "idle" /\ ~MissingInput(c) /\ MissingOutput(c)
                   /\ pc'[c] = "threw" /\ pc[c] # "threw") =>
                  /\ pc[c] = "L94"
                  /\ HasAlloc(ops[c], "reMalloc", "gating_buf_")
                  /\ is_allocate_buffer_
                  /\ UNCHANGED layerVars]_vars

\* a first call without ffn_output: it has thrown, a region was acquired
\* for it and the flag has become true
C19_Witness ==
    \E c \in Callers :
        /\ pc[c] = "threw"
        /\ ~MissingInput(c)
        /\ MissingOutput(c)
        /\ HasAlloc(ops[c], "malloc", "gating_buf_")
        /\ is_allocate_buffer_
        /\ ~is_free_buffer_after_forward_

BetweenOperations == \A c \in Callers : pc[c] \in {"idle", "returned", "threw"}

Outstanding == {a \in Addrs : pointer_mapping[a] > 0}

\* C20 as stated: between operations, after any sequence of allocateBuffer,
\* forward and freeBuffer, failing allocations and device errors included,
\* the allocated flag is true whenever gating_buf_ or lora_buf_ is
\* non-empty, so that with the flag false no region is outstanding and a
\* freeBuffer has nothing left to release.
C20_FlagCoversHandles ==
    BetweenOperations =>
        /\ (gating_buf_ # NullPtr \/ lora_buf_ # NullPtr) => is_allocate_buffer_
        /\ ~is_allocate_buffer_ => Outstanding = {}

====
